---- MODULE Spec2Model ----
(***************************************************************************)
(* Pre-commit checks of the infrastructure repository:                     *)
(*   pre_commit_checks/check_copyright/check_copyright.py                  *)
(*   pre_commit_checks/check_author.py                                     *)
(*                                                                         *)
(* Text is modelled character by character: a Python str is a sequence of  *)
(* one-character strings, so that str.find, str.strip, str.endswith,       *)
(* str.split, int() and the regular expressions are computed on the        *)
(* characters as the library computes them.                                *)
(***************************************************************************)
EXTENDS Integers, Sequences, FiniteSets, TLC

VARIABLES
    pc,               \* position of the running script
    stream,           \* get_leading_comments: the lines of the opened file
    comments,         \* get_leading_comments: the returned list
    tested_strings,   \* is_copyright_correct: its argument
    src_file,         \* CopyrightChecker.src_file
    details,          \* CopyrightChecker.details
    result,           \* value returned by is_copyright_correct / Checker.check
    frame,            \* is_copyright_correct: its locals when it returned
    diff,             \* output of "git diff --name-only" (one path per entry)
    files,            \* check_copyright: the list get_changed_files returned
    idx,              \* check_copyright: number of files the for loop has taken
    has_problems,     \* check_copyright: local has_problems
    report,           \* calls made to helper.update_json, in order
    exit_code,        \* status the process exited with, or NoExit
    author,           \* commit.author.name
    email,            \* commit.author.email
    check_author_result, \* Checker.check: local
    check_email_result,  \* Checker.check: local
    log               \* records written to the logger, in order

vars == <<pc, stream, comments, tested_strings, src_file, details, result, frame,
          diff, files, idx, has_problems, report, exit_code,
          author, email, check_author_result, check_email_result, log>>

extractVars == <<stream, comments>>
checkVars   == <<tested_strings, src_file, details, result, frame>>
runVars     == <<diff, files, idx, has_problems, report>>
authorVars  == <<author, email, check_author_result, check_email_result, log>>

None   == "None"
NoExit == "running"

(***************************************************************************)
(* Python str helpers.  Positions are 0-based as in Python; s[k] of the    *)
(* TLA+ sequence is the character at Python index k-1.                     *)
(***************************************************************************)
Min(S) == CHOOSE m \in S : \A n \in S : m <= n

\* s[i:i+len(sub)] == sub
HasAt(s, sub, i) ==
    /\ i >= 0
    /\ i + Len(sub) <= Len(s)
    /\ \A k \in 1..Len(sub) : s[i + k] = sub[k]

SUBSTRING_IS_NOT_FOUND == -1

\* str.find(sub) where the code writes str.find(sub, start)
find_FromLineStart(s, sub, start) ==
    LET hits == {i \in 0..(Len(s) - Len(sub)) : HasAt(s, sub, i)}
    IN  IF hits = {} THEN SUBSTRING_IS_NOT_FOUND ELSE Min(hits)

\* str.find(sub, start)
find(s, sub, start) ==
    LET hits == {i \in start..(Len(s) - Len(sub)) : HasAt(s, sub, i)}
    IN  IF hits = {} THEN SUBSTRING_IS_NOT_FOUND ELSE Min(hits)

\* str.endswith(suffix)
endswith(s, suffix) ==
    Len(s) >= Len(suffix) /\ HasAt(s, suffix, Len(s) - Len(suffix))

\* characters str.strip() removes and \s matches
Whitespace == {" ", "\t", "\n"}

\* str.strip()
strip(s) ==
    LET keep == {k \in 1..Len(s) : s[k] \notin Whitespace}
    IN  IF keep = {} THEN <<>>
        ELSE SubSeq(s, Min(keep), CHOOSE m \in keep : \A n \in keep : n <= m)

Digit == {"0", "1", "2", "3", "4", "5", "6", "7", "8", "9"}

DigitValue(c) ==
    CASE c = "0" -> 0 [] c = "1" -> 1 [] c = "2" -> 2 [] c = "3" -> 3
      [] c = "4" -> 4 [] c = "5" -> 5 [] c = "6" -> 6 [] c = "7" -> 7
      [] c = "8" -> 8 [] c = "9" -> 9

\* int(s) for a str of decimal digits with surrounding whitespace
RECURSIVE DecimalValue(_)
DecimalValue(s) ==
    IF s = <<>> THEN 0
    ELSE 10 * DecimalValue(SubSeq(s, 1, Len(s) - 1)) + DigitValue(s[Len(s)])

int(s) == DecimalValue(strip(s))

\* str.split(sep) for a one-character separator
RECURSIVE split(_, _)
split(s, sep) ==
    LET at == {k \in 1..Len(s) : s[k] = sep}
    IN  IF at = {} THEN <<s>>
        ELSE <<SubSeq(s, 1, Min(at) - 1)>> \o split(SubSeq(s, Min(at) + 1, Len(s)), sep)

\* the C/C++ comment markers
BlockOpen  == <<"/", "*">>
BlockClose == <<"*", "/">>
LineMark   == <<"/", "/">>

(***************************************************************************)
(* get_leading_comments(stream): the for loop as a recursion on the index  *)
(* of the next line, carrying the locals comments and multiline_comment.   *)
(***************************************************************************)
RECURSIVE ScanLines(_, _, _, _)
ScanLines(lines, i, acc, multiline_comment) ==
    IF i > Len(lines) THEN acc
    ELSE
        LET line == strip(lines[i]) IN
        IF line = <<>> THEN ScanLines(lines, i + 1, acc, multiline_comment)
        ELSE IF ~multiline_comment THEN
            LET found_pos == find(line, BlockOpen, 0) IN
            IF found_pos >= 0
            THEN ScanLines(lines, i + 1, Append(acc, line),
                           find(line, BlockClose, found_pos) = SUBSTRING_IS_NOT_FOUND)
            ELSE IF find(line, LineMark, 0) >= 0
            THEN ScanLines(lines, i + 1, Append(acc, line), FALSE)
            ELSE acc
        ELSE ScanLines(lines, i + 1, Append(acc, line),
                       ~(find(line, BlockClose, 0) >= 0))

get_leading_comments(lines) == ScanLines(lines, 1, <<>>, FALSE)

(***************************************************************************)
(* Specification SpecExtract: get_leading_comments applied to every stream *)
(* of at most MaxStream lines drawn from StreamLines.                      *)
(***************************************************************************)
MaxStream == 3

R_blank       == <<" ", "\n">>
R_line        == <<"/", "/", " ", "a", "\n">>
R_closed      == <<" ", "/", "*", " ", "a", " ", "*", "/", "\n">>
R_open        == <<"/", "*", " ", "a", "\n">>
R_close       == <<"\t", "a", " ", "*", "/", "\n">>
R_text        == <<"a", "\n">>
R_slash       == <<"/", "*", "/", "\n">>
R_reopen      == <<"*", "/", " ", "/", "*", "\n">>
R_closed_open == <<"/", "*", "a", "*", "/", " ", "/", "*", "a", "\n">>

StreamLines == {R_blank, R_line, R_closed, R_open, R_close, R_text,
                R_slash, R_reopen, R_closed_open}

Streams == UNION {[1..n -> StreamLines] : n \in 0..MaxStream}

NotYet == "not yet"
NoFrame == [copyright_strings |-> <<>>, intel_copyright |-> <<>>,
            year_or_range |-> [kind |-> "None", years |-> <<>>]]

IdleExtract == stream = <<>> /\ comments = <<>>
IdleCheck   == /\ tested_strings = <<>> /\ src_file = <<>> /\ details = <<>>
               /\ result = NotYet /\ frame = NoFrame
IdleRun     == /\ diff = <<>> /\ files = <<>> /\ idx = 0 /\ has_problems = FALSE
               /\ report = <<>> /\ exit_code = NoExit
IdleAuthor  == /\ author = "" /\ email = <<>> /\ check_author_result = NotYet
               /\ check_email_result = NotYet /\ log = <<>>

InitExtract ==
    /\ pc = "extract_in"
    /\ stream \in Streams
    /\ comments = <<>>
    /\ IdleCheck /\ IdleRun /\ IdleAuthor

\* comments = get_leading_comments(file_desr)
GetLeadingComments ==
    /\ pc = "extract_in"
    /\ comments' = get_leading_comments(stream)
    /\ pc' = "extract_out"
    /\ UNCHANGED <<stream, checkVars, runVars, exit_code, authorVars>>

NextExtract == GetLeadingComments

SpecExtract == InitExtract /\ [][NextExtract]_vars

(***************************************************************************)
(* C9.  The block the claim describes, stated on the whole stream.         *)
(***************************************************************************)
Contains(l, sub) == \E i \in 0..Len(l) : HasAt(l, sub, i)

\* the trimmed non-blank lines of a stream, in order
NonBlank(lines) ==
    SelectSeq([k \in 1..Len(lines) |-> strip(lines[k])], LAMBDA l : l # <<>>)

\* the line's first "/*" has no "*/" after it
OpensBlock(l) ==
    \E p \in 0..Len(l) :
        /\ HasAt(l, BlockOpen, p)
        /\ \A p2 \in 0..(p - 1) : ~HasAt(l, BlockOpen, p2)
        /\ ~\E q \in (p + 1)..Len(l) : HasAt(l, BlockClose, q)

\* line i of nb is reached in multi-line mode
RECURSIVE InsideBlock(_, _)
InsideBlock(nb, i) ==
    IF i = 1 THEN FALSE
    ELSE IF InsideBlock(nb, i - 1) THEN ~Contains(nb[i - 1], BlockClose)
    ELSE OpensBlock(nb[i - 1])

LeadingBlock(lines) ==
    LET nb   == NonBlank(lines)
        ends == {i \in 1..Len(nb) : /\ ~InsideBlock(nb, i)
                                    /\ ~Contains(nb[i], BlockOpen)
                                    /\ ~Contains(nb[i], LineMark)}
    IN  IF ends = {} THEN nb ELSE SubSeq(nb, 1, Min(ends) - 1)

AnyStart(s) == 0..Len(s)

AfterLiteral(s, word, P) == {p + Len(word) : p \in {q \in P : HasAt(s, word, q)}}

\* one character of a class [...]
AfterClass(s, class, P) == {p + 1 : p \in {q \in P : q < Len(s) /\ s[q + 1] \in class}}

\* [...]* and \s* (greedy or lazy: the offsets are the same)
AfterStar(s, class, P) ==
    {q \in 0..Len(s) : \E p \in P : p <= q /\ \A k \in (p + 1)..q : s[k] \in class}

\* [...]?
AfterOptional(s, class, P) == P \cup AfterClass(s, class, P)

\* .*  (the dot matches any character but a newline)
AfterDotStar(s, P) ==
    {q \in 0..Len(s) : \E p \in P : p <= q /\ \A k \in (p + 1)..q : s[k] # "\n"}

\* [0-9]{4}
AfterYear(s, P) ==
    AfterClass(s, Digit, AfterClass(s, Digit, AfterClass(s, Digit, AfterClass(s, Digit, P))))

T_opyright    == <<"o", "p", "y", "r", "i", "g", "h", "t">>
T_OPYRIGHT    == <<"O", "P", "Y", "R", "I", "G", "H", "T">>
T_Copyright   == <<"C", "o", "p", "y", "r", "i", "g", "h", "t">>
T_Intel       == <<"I", "n", "t", "e", "l">>
T_Corporation == <<"C", "o", "r", "p", "o", "r", "a", "t", "i", "o", "n">>

\* the pattern of get_copyright_strings compiled with re.IGNORECASE
IsCopyrightString_IgnoreCase(tested_string) ==
    LET P1 == AfterDotStar(tested_string, AnyStart(tested_string))
        P2 == AfterClass(tested_string, {"C", "c"}, P1)
        P3 == AfterLiteral(tested_string, T_opyright, P2)
              \cup AfterLiteral(tested_string, T_OPYRIGHT, P2)
        P4 == AfterOptional(tested_string, Whitespace, P3)
        P5 == AfterDotStar(tested_string, P4)
        P6 == AfterYear(tested_string, P5)
    IN  P6 # {}

\* the pattern of get_copyright_strings without its ([0-9]{4}) group
IsCopyrightString_NoYear(tested_string) ==
    LET P1 == AfterDotStar(tested_string, AnyStart(tested_string))
        P2 == AfterClass(tested_string, {"C", "c"}, P1)
        P3 == AfterLiteral(tested_string, T_opyright, P2)
    IN  P3 # {}

\* re.search(r'.*[Cc]opyright\s?.*([0-9]{4}).*', tested_string)
IsCopyrightString(tested_string) ==
    LET P1 == AfterDotStar(tested_string, AnyStart(tested_string))
        P2 == AfterClass(tested_string, {"C", "c"}, P1)
        P3 == AfterLiteral(tested_string, T_opyright, P2)
        P4 == AfterOptional(tested_string, Whitespace, P3)
        P5 == AfterDotStar(tested_string, P4)
        P6 == AfterYear(tested_string, P5)
    IN  P6 # {}

get_copyright_strings(strings) == SelectSeq(strings, IsCopyrightString)

\* the pattern of is_intel_copyright with the "(c)" group made optional
is_intel_copyright_OptionalMarker(tested_string) ==
    LET P1 == AfterDotStar(tested_string, AnyStart(tested_string))
        P2 == AfterLiteral(tested_string, T_Copyright, P1)
        P3 == AfterStar(tested_string, Whitespace, P2)
        P6 == P3 \cup AfterLiteral(tested_string, <<")">>,
                  AfterClass(tested_string, {"c", "C"},
                      AfterLiteral(tested_string, <<"(">>, P3)))
        P7 == AfterStar(tested_string, Whitespace, P6)
        P8 == AfterStar(tested_string, Digit \cup {" ", "-"}, P7)
        P9 == AfterStar(tested_string, Whitespace, P8)
        P10 == AfterLiteral(tested_string, T_Intel, P9)
        P11 == AfterStar(tested_string, Whitespace, P10)
        P12 == AfterLiteral(tested_string, T_Corporation, P11)
    IN  P12 # {}

\* re.search(r'.*Copyright\s*?\([cC]\)\s*[0-9 \-]*\s*?Intel\s*?Corporation.*', ...)
is_intel_copyright(tested_string) ==
    LET P1 == AfterDotStar(tested_string, AnyStart(tested_string))
        P2 == AfterLiteral(tested_string, T_Copyright, P1)
        P3 == AfterStar(tested_string, Whitespace, P2)
        P4 == AfterLiteral(tested_string, <<"(">>, P3)
        P5 == AfterClass(tested_string, {"c", "C"}, P4)
        P6 == AfterLiteral(tested_string, <<")">>, P5)
        P7 == AfterStar(tested_string, Whitespace, P6)
        P8 == AfterStar(tested_string, Digit \cup {" ", "-"}, P7)
        P9 == AfterStar(tested_string, Whitespace, P8)
        P10 == AfterLiteral(tested_string, T_Intel, P9)
        P11 == AfterStar(tested_string, Whitespace, P10)
        P12 == AfterLiteral(tested_string, T_Corporation, P11)
    IN  P12 # {}

NoYears == [kind |-> None, years |-> <<>>]

\* re.search(r'([0-9]{4}\ ?\-\ ?)?([0-9]{4})', tested_string): the leftmost
\* offset at which the pattern matches; there the optional group is tried
\* first, and skipped only if the pattern cannot match with it.
YearMatch(tested_string) ==
    LET starts == {i \in AnyStart(tested_string) : AfterYear(tested_string, {i}) # {}}
        i0     == Min(starts)
        ranged == AfterYear(tested_string,
                      AfterOptional(tested_string, {" "},
                          AfterLiteral(tested_string, <<"-">>,
                              AfterOptional(tested_string, {" "},
                                  AfterYear(tested_string, {i0})))))
    IN  IF starts = {} THEN [found |-> FALSE, group0 |-> <<>>]
        ELSE IF ranged # {}
        THEN [found |-> TRUE,
              group0 |-> SubSeq(tested_string, i0 + 1,
                                CHOOSE e \in ranged : \A f \in ranged : f <= e)]
        ELSE [found |-> TRUE, group0 |-> SubSeq(tested_string, i0 + 1, i0 + 4)]

get_copyright_year_or_range(tested_string) ==
    LET substring == YearMatch(tested_string) IN
    IF ~substring.found THEN NoYears
    ELSE
        LET parts == split(substring.group0, "-")
            years == [k \in 1..Len(parts) |-> int(parts[k])]
        IN  IF Len(years) = 2 THEN [kind |-> "range", years |-> years]
            ELSE [kind |-> "year", years |-> <<years[1]>>]

(***************************************************************************)
(* CopyrightChecker.  details is a list of str; an entry is modelled as    *)
(* the message it is formatted from and the strings formatted into it.     *)
(***************************************************************************)
YEAR == 2019

Entry(msg, args) == [msg |-> msg, args |-> args]

PathEntry(path)  == Entry(":", <<path>>)
MSG_MISSING      == "Missing copyright."
MSG_TOO_MANY     == "Too many copyrights: "
MSG_RANGE_NEED   == "Incorrect the copyright range need YEAR or [YEAR-]YEAR"
MSG_YEAR         == "Incorrect the copyright year, [YEAR-]YEAR is needed"
MSG_RANGE        == "Incorrect the copyright range [YEAR-]YEAR is needed"
Reasons == {MSG_MISSING, MSG_TOO_MANY, MSG_RANGE_NEED, MSG_YEAR, MSG_RANGE}

\* CopyrightChecker.append_details
append_details(det, path, entry) == det \o <<PathEntry(path), entry>>

\* the value is_copyright_correct returns, its effect on self.details, and
\* its locals when it returns
Outcome(ret, det, copyright_strings, intel_copyright, year_or_range) ==
    [ret |-> ret, details |-> det, copyright_strings |-> copyright_strings,
     intel_copyright |-> intel_copyright, year_or_range |-> year_or_range]

\* the second organizational string is never noticed
TooManyNotices_Never(intel) == FALSE

\* "if intel_copyright:" is reached with a second organizational string
TooManyNotices(intel) == Len(intel) > 1

\* CopyrightChecker.is_copyright_correct(tested_strings) for src_file = path
\* and details = det.  The for loop keeps the first organizational string
\* and returns at the second: intel is the list of the organizational ones.
is_copyright_correct(path, strings, det) ==
    LET copyright_strings == get_copyright_strings(strings)
        intel == SelectSeq(copyright_strings, is_intel_copyright)
        intel_copyright == IF intel = <<>> THEN <<>> ELSE intel[1]
        year_or_range == get_copyright_year_or_range(intel_copyright)
    IN  IF copyright_strings = <<>>
        THEN Outcome(FALSE, append_details(det, path, Entry(MSG_MISSING, <<>>)),
                     copyright_strings, <<>>, NoYears)
        ELSE IF TooManyNotices(intel)
        THEN Outcome(FALSE,
                     append_details(det, path, Entry(MSG_TOO_MANY, copyright_strings)),
                     copyright_strings, intel_copyright, NoYears)
        ELSE IF intel_copyright = <<>>
        THEN Outcome(TRUE, det, copyright_strings, intel_copyright, NoYears)
        ELSE IF year_or_range.kind = None
        THEN Outcome(FALSE,
                     append_details(det, path, Entry(MSG_RANGE_NEED, <<intel_copyright>>)),
                     copyright_strings, intel_copyright, year_or_range)
        ELSE IF year_or_range.kind = "year" /\ ~(year_or_range.years[1] = YEAR)
        THEN Outcome(FALSE,
                     append_details(det, path, Entry(MSG_YEAR, <<intel_copyright>>)),
                     copyright_strings, intel_copyright, year_or_range)
        ELSE IF /\ year_or_range.kind = "range"
                /\ (\/ ~(year_or_range.years[2] = YEAR)
                    \/ year_or_range.years[2] <= year_or_range.years[1])
        THEN Outcome(FALSE,
                     append_details(det, path, Entry(MSG_RANGE, <<intel_copyright>>)),
                     copyright_strings, intel_copyright, year_or_range)
        ELSE Outcome(TRUE, det, copyright_strings, intel_copyright, year_or_range)

(***************************************************************************)
(* Specification SpecCheck: is_copyright_correct applied to comment blocks.*)
(* A line is put together from a comment prefix, the word, the marker, the *)
(* years, the holder and a tail; NoticeLines is every such line.  Blocks   *)
(* are the one-line blocks over NoticeLines and the blocks of at most      *)
(* MaxLines lines over CoreLines.                                          *)
(***************************************************************************)
MaxLines == 2

Prefixes == {<<"/", "/", " ">>, <<"/", "*", " ", "1", "9", "9", "9", " ">>, <<>>}
Words    == {<<"C", "o", "p", "y", "r", "i", "g", "h", "t">>, <<"c", "o", "p", "y", "r", "i", "g", "h", "t">>, <<"C", "O", "P", "Y", "R", "I", "G", "H", "T">>}
Markers  == {<<" ", "(", "c", ")", " ">>, <<"(", "C", ")">>, <<" ">>}
Years    == {<<>>,
             <<"2", "0", "1", "9">>,
             <<"2", "0", "1", "8">>,
             <<"2", "0", "1", "8", "-", "2", "0", "1", "9">>,
             <<"2", "0", "1", "9", "-", "2", "0", "1", "8">>,
             <<"2", "0", "1", "9", "-", "2", "0", "1", "9">>,
             <<"2", "0", "1", "7", " ", "-", " ", "2", "0", "1", "9">>,
             <<"2", "0", "1", "9", "0">>}
Holders  == {<<" ", "I", "n", "t", "e", "l", " ", "C", "o", "r", "p", "o", "r", "a", "t", "i", "o", "n">>, <<" ", "I", "n", "t", "e", "l", "C", "o", "r", "p", "o", "r", "a", "t", "i", "o", "n">>, <<" ", "F", "o", "o", " ", "I", "n", "c">>}
Tails    == {<<>>, <<".", " ", "2", "0", "1", "9">>}

NoticeLines ==
    {p \o w \o m \o y \o h \o t :
        p \in Prefixes, w \in Words, m \in Markers, y \in Years, h \in Holders, t \in Tails}

L_good       == <<"/", "/", " ", "C", "o", "p", "y", "r", "i", "g", "h", "t", " ", "(", "c", ")", " ", "2", "0", "1", "9", " ", "I", "n", "t", "e", "l", " ", "C", "o", "r", "p", "o", "r", "a", "t", "i", "o", "n">>
L_range      == <<"/", "/", " ", "C", "o", "p", "y", "r", "i", "g", "h", "t", " ", "(", "c", ")", " ", "2", "0", "1", "8", "-", "2", "0", "1", "9", " ", "I", "n", "t", "e", "l", " ", "C", "o", "r", "p", "o", "r", "a", "t", "i", "o", "n">>
L_stale      == <<"/", "/", " ", "C", "o", "p", "y", "r", "i", "g", "h", "t", " ", "(", "c", ")", " ", "2", "0", "1", "8", " ", "I", "n", "t", "e", "l", " ", "C", "o", "r", "p", "o", "r", "a", "t", "i", "o", "n">>
L_third      == <<"/", "/", " ", "C", "o", "p", "y", "r", "i", "g", "h", "t", " ", "2", "0", "0", "1", " ", "F", "o", "o", " ", "I", "n", "c">>
L_upper      == <<"/", "/", " ", "C", "O", "P", "Y", "R", "I", "G", "H", "T", " ", "2", "0", "0", "1", " ", "F", "o", "o", " ", "I", "n", "c">>
L_yearless   == <<"/", "/", " ", "C", "o", "p", "y", "r", "i", "g", "h", "t", " ", "(", "c", ")", " ", "I", "n", "t", "e", "l", " ", "C", "o", "r", "p", "o", "r", "a", "t", "i", "o", "n">>
L_nomarker   == <<"/", "*", " ", "C", "o", "p", "y", "r", "i", "g", "h", "t", " ", "2", "0", "1", "9", "-", "2", "0", "1", "8", " ", "I", "n", "t", "e", "l", " ", "C", "o", "r", "p", "o", "r", "a", "t", "i", "o", "n", " ", "*", "/">>
L_plain      == <<"/", "/", " ", "a">>

CoreLines == {L_good, L_range, L_stale, L_third, L_upper, L_yearless, L_nomarker, L_plain}

Blocks ==
    {<<l>> : l \in NoticeLines} \cup UNION {[1..n -> CoreLines] : n \in 0..MaxLines}

P_a_cpp == <<"a", ".", "c", "p", "p">>

InitCheck ==
    /\ pc = "check_in"
    /\ tested_strings \in Blocks
    /\ src_file = P_a_cpp
    /\ details = <<>>
    /\ result = NotYet
    /\ frame = NoFrame
    /\ IdleExtract /\ IdleRun /\ IdleAuthor

\* self.is_copyright_correct(comments)
IsCopyrightCorrect ==
    /\ pc = "check_in"
    /\ LET out == is_copyright_correct(src_file, tested_strings, details) IN
       /\ result' = out.ret
       /\ details' = out.details
       /\ frame' = [copyright_strings |-> out.copyright_strings,
                    intel_copyright |-> out.intel_copyright,
                    year_or_range |-> out.year_or_range]
    /\ pc' = "check_out"
    /\ UNCHANGED <<tested_strings, src_file, extractVars, runVars, exit_code, authorVars>>

NextCheck == IsCopyrightCorrect

SpecCheck == InitCheck /\ [][NextCheck]_vars

(***************************************************************************)
(* The notions the statements about is_copyright_correct are made of,      *)
(* stated on the characters of a line.                                     *)
(***************************************************************************)
T_copyright == <<"c", "o", "p", "y", "r", "i", "g", "h", "t">>

ToLower(c) ==
    CASE c = "C" -> "c" [] c = "O" -> "o" [] c = "P" -> "p" [] c = "Y" -> "y"
      [] c = "R" -> "r" [] c = "I" -> "i" [] c = "G" -> "g" [] c = "H" -> "h"
      [] c = "T" -> "t" [] OTHER -> c

HasYearAt(l, q) == q + 4 <= Len(l) /\ \A k \in 1..4 : l[q + k] \in Digit

\* "copyright" in any letter case, four digits somewhere after it
FoldCopyrightLine(l) ==
    \E p \in 0..Len(l) :
        /\ HasAt([k \in 1..Len(l) |-> ToLower(l[k])], T_copyright, p)
        /\ \E q \in (p + 9)..Len(l) : HasYearAt(l, q)

\* "Copyright" or "copyright", four digits somewhere after it
CopyrightLine(l) ==
    \E p \in 0..Len(l) :
        /\ HasAt(l, T_Copyright, p) \/ HasAt(l, T_copyright, p)
        /\ \E q \in (p + 9)..Len(l) : HasYearAt(l, q)

AllIn(l, from, to, class) == \A k \in (from + 1)..to : l[k] \in class

\* the text between offsets from and to is a years field: digits, spaces
\* and hyphens, with whitespace around it
IsYearsField(l, from, to) ==
    LET field == strip(SubSeq(l, from + 1, to))
    IN  \A k \in 1..Len(field) : field[k] \in Digit \cup {" ", "-"}

\* <<b, c>>: "Intel Corporation" starts at offset c and what lies between
\* b and c is a years field
HolderSpans(l, b) ==
    {<<b, c>> : c \in {c \in b..Len(l) :
        /\ HasAt(l, T_Intel, c)
        /\ IsYearsField(l, b, c)
        /\ \E d \in (c + 5)..Len(l) :
              AllIn(l, c + 5, d, Whitespace) /\ HasAt(l, T_Corporation, d)}}

\* the years fields of "Copyright (c) <years> Intel Corporation" in l
MarkedSpans(l) ==
    UNION {HolderSpans(l, b + 3) : b \in {b \in 0..Len(l) :
        /\ HasAt(l, <<"(">>, b) /\ HasAt(l, <<")">>, b + 2)
        /\ HasAt(l, <<"c">>, b + 1) \/ HasAt(l, <<"C">>, b + 1)
        /\ \E a \in 0..b : HasAt(l, T_Copyright, a) /\ a + 9 <= b
                            /\ AllIn(l, a + 9, b, Whitespace)}}

\* the years fields of "Copyright <years> Intel Corporation" in l
UnmarkedSpans(l) ==
    UNION {HolderSpans(l, a + 9) : a \in {a \in 0..Len(l) : HasAt(l, T_Copyright, a)}}

\* an organizational notice: a copyright line in the vendor's template
OrganizationalNotice(l) == CopyrightLine(l) /\ MarkedSpans(l) # {}

Organizational(block) == {k \in 1..Len(block) : OrganizationalNotice(block[k])}

YearsField(l) ==
    LET span == CHOOSE x \in MarkedSpans(l) : TRUE
    IN  strip(SubSeq(l, span[1] + 1, span[2]))

IsYear(t) == Len(t) = 4 /\ HasYearAt(t, 0)

\* the years field is one 4-digit year equal to the policy year, or a
\* range A-B with B the policy year and A < B
YearsInPolicy(field) ==
    LET parts == split(field, "-") IN
    \/ IsYear(field) /\ DecimalValue(field) = YEAR
    \/ /\ Len(parts) = 2
       /\ IsYear(strip(parts[1])) /\ IsYear(strip(parts[2]))
       /\ DecimalValue(strip(parts[2])) = YEAR
       /\ DecimalValue(strip(parts[1])) < DecimalValue(strip(parts[2]))

Recorded(det, path) ==
    Len(det) = 2 /\ det[1] = PathEntry(path) /\ det[2].msg \in Reasons

\* C1: with one organizational notice in the block, is_copyright_correct
\* passes exactly when the notice's years field is the policy year or a
\* range A-B with B the policy year and A < B, and otherwise fails and
\* records a detail for the file.
C1_YearsOfTheNotice ==
    (pc = "check_out" /\ Cardinality(Organizational(tested_strings)) = 1) =>
        LET k == CHOOSE n \in Organizational(tested_strings) : TRUE IN
        /\ result = YearsInPolicy(YearsField(tested_strings[k]))
        /\ ~result => Recorded(details, src_file)

\* C2: a notice without the "(c)" marker is organizational and its years
\* are policed; the block of L_nomarker fails.
C2_MarkerOptional ==
    pc = "check_out" =>
        /\ \A k \in 1..Len(tested_strings) :
               (CopyrightLine(tested_strings[k]) /\ UnmarkedSpans(tested_strings[k]) # {}
                /\ Len(tested_strings) = 1)
               => frame.intel_copyright = tested_strings[k]
        /\ tested_strings = <<L_nomarker>> => result = FALSE

\* C2 (amended): the marker is required; a notice without it is not
\* organizational, its years are not policed, and a block whose notices in
\* the vendor's name all lack the marker passes with nothing recorded.
C2_MarkerRequired ==
    pc = "check_out" =>
        /\ (/\ \E k \in 1..Len(tested_strings) :
                  /\ CopyrightLine(tested_strings[k])
                  /\ UnmarkedSpans(tested_strings[k]) # {}
            /\ \A k \in 1..Len(tested_strings) : MarkedSpans(tested_strings[k]) = {})
           => (frame.intel_copyright = <<>> /\ result = TRUE /\ details = <<>>)
        /\ tested_strings = <<L_nomarker>> => result = TRUE

C2_Witness ==
    pc = "check_out" /\ tested_strings = <<L_nomarker>> /\ result = TRUE

\* C3: get_copyright_strings selects exactly the lines with the word
\* "copyright" in any letter case followed later by four digits.
C3_AnyLetterCase ==
    pc = "check_out" =>
        frame.copyright_strings = SelectSeq(tested_strings, FoldCopyrightLine)

\* C3 (amended): get_copyright_strings selects exactly the lines with
\* "Copyright" or "copyright" followed later by four digits.
C3_FirstLetterCase ==
    pc = "check_out" =>
        frame.copyright_strings = SelectSeq(tested_strings, CopyrightLine)

C3_Witness ==
    /\ pc = "check_out"
    /\ tested_strings = <<L_upper, L_third>>
    /\ frame.copyright_strings = <<L_third>>

\* C4: with two or more organizational notices the block fails with a
\* "Too many copyrights" detail listing every copyright string of the
\* block, whatever the years; no year is parsed.
C4_TooMany ==
    (pc = "check_out" /\ Cardinality(Organizational(tested_strings)) >= 2) =>
        /\ result = FALSE
        /\ details = <<PathEntry(src_file),
                       Entry(MSG_TOO_MANY, SelectSeq(tested_strings, CopyrightLine))>>
        /\ frame.year_or_range = NoYears

C4_Witness ==
    /\ pc = "check_out"
    /\ tested_strings = <<L_good, L_range>>
    /\ result = FALSE
    /\ details[2].msg = MSG_TOO_MANY

\* C5: a block with a third-party copyright notice, however capitalised,
\* and no organizational notice passes and records nothing.
C5_ThirdPartyAnyCase ==
    (/\ pc = "check_out"
     /\ \E k \in 1..Len(tested_strings) :
            FoldCopyrightLine(tested_strings[k]) /\ MarkedSpans(tested_strings[k]) = {}
     /\ Organizational(tested_strings) = {}) =>
        result = TRUE /\ details = <<>>

\* C5 (amended): a block with a third-party notice spelt "Copyright" or
\* "copyright" and no organizational notice passes and records nothing,
\* whatever the year.
C5_ThirdParty ==
    (/\ pc = "check_out"
     /\ \E k \in 1..Len(tested_strings) :
            CopyrightLine(tested_strings[k]) /\ MarkedSpans(tested_strings[k]) = {}
     /\ Organizational(tested_strings) = {}) =>
        result = TRUE /\ details = <<>>

C5_Witness ==
    /\ pc = "check_out"
    /\ tested_strings = <<L_plain, L_third>>
    /\ result = TRUE
    /\ details = <<>>

\* C10: year parsing never fails inside is_copyright_correct: every string
\* get_copyright_strings accepted parses to a year or a range, and the
\* "Incorrect the copyright range need" detail is never recorded.
C10_ParseNeverFails ==
    pc = "check_out" =>
        /\ \A k \in 1..Len(details) : details[k].msg # MSG_RANGE_NEED
        /\ \A k \in 1..Len(frame.copyright_strings) :
               get_copyright_year_or_range(frame.copyright_strings[k]).kind # None
        /\ (frame.intel_copyright # <<>> /\ Cardinality(Organizational(tested_strings)) = 1)
               => frame.year_or_range.kind \in {"year", "range"}

C10_Witness ==
    /\ pc = "check_out"
    /\ frame.intel_copyright = L_range
    /\ frame.year_or_range = [kind |-> "range", years |-> <<2018, 2019>>]

(***************************************************************************)
(* CopyrightChecker.check_copyright.  The working tree is a fixed set of   *)
(* files; the commit's diff lists at most MaxFiles of them, each once.     *)
(***************************************************************************)
MaxFiles == 3

FILES_TO_CHECK == <<<<".", "h">>, <<".", "c", "p", "p">>, <<".", "c">>>>

P_a_h   == <<"a", ".", "h">>
P_b_cpp == <<"s", "r", "c", "/", "b", ".", "c", "p", "p">>
P_c_c   == <<"c", ".", "c">>
P_d_c   == <<"d", ".", "c">>
P_e_h   == <<"e", ".", "h">>
P_f_py  == <<"f", ".", "p", "y">>
P_g_cpp == <<"g", ".", "c", "p", "p">>

NL == <<"\n">>

WorkingTree ==
    {[path |-> P_a_h, readable |-> TRUE,
      lines |-> <<L_good \o NL, NL, <<"x", ";", "\n">>>>],
     [path |-> P_b_cpp, readable |-> TRUE,
      lines |-> <<<<"/", "*", "\n">>, <<" ", "*", " ", "C", "o", "p", "y", "r", "i", "g", "h", "t", " ", "(", "c", ")", " ", "2", "0", "1", "8", " ", "I", "n", "t", "e", "l", " ", "C", "o", "r", "p", "o", "r", "a", "t", "i", "o", "n", "\n">>, <<" ", "*", "/", "\n">>, <<"x", ";", "\n">>>>],
     [path |-> P_c_c, readable |-> TRUE, lines |-> <<L_third \o NL, L_plain \o NL>>],
     [path |-> P_d_c, readable |-> TRUE, lines |-> <<<<"x", ";", "\n">>, L_good \o NL>>],
     [path |-> P_e_h, readable |-> FALSE, lines |-> <<>>],
     [path |-> P_f_py, readable |-> TRUE, lines |-> <<L_stale \o NL>>],
     [path |-> P_g_cpp, readable |-> TRUE, lines |-> <<L_range \o NL, L_good \o NL>>]}

Paths == {f.path : f \in WorkingTree}
FileAt(path) == CHOOSE f \in WorkingTree : f.path = path

Diffs ==
    {d \in UNION {[1..n -> Paths] : n \in 0..MaxFiles} :
        \A i, j \in 1..Len(d) : d[i] = d[j] => i = j}

\* src_file.endswith(FILES_TO_CHECK)
HasSourceExtension(path) ==
    \E k \in 1..Len(FILES_TO_CHECK) : endswith(path, FILES_TO_CHECK[k])

\* CopyrightChecker.get_changed_files
get_changed_files(names) == SelectSeq(names, HasSourceExtension)

MSG_CORRECT_FORMAT == "Correct format: Copyright (c) [YEAR-]YEAR Intel Corporation. All Rights Reserved."
MSG_CHECKED        == "Checked following files:"
MSG_NO_FILES       == "No files to check..."
MSG_EXTENSIONS     == "Check works only for files with extensions:"
MSG_FILE           == "file"

\* has_problems = not self.is_copyright_correct(comments)
UpdateProblems_Overwrite(problems, ret) == ~ret

\* has_problems |= not self.is_copyright_correct(comments)
UpdateProblems(problems, ret) == problems \/ ~ret

\* the status is decided by the verdict alone
ExitStatus_IgnoresSink(written, problems) == IF problems THEN 1 ELSE 0

\* exit(2) if update_json returned false, else exit(1) or exit(0)
ExitStatus(written, problems) ==
    IF ~written THEN 2 ELSE IF problems THEN 1 ELSE 0

InitRun ==
    /\ pc = "run_start"
    /\ diff \in Diffs
    /\ files = <<>> /\ idx = 0 /\ has_problems = FALSE
    /\ report = <<>> /\ exit_code = NoExit
    /\ comments = <<>> /\ stream = <<>>
    /\ tested_strings = <<>> /\ src_file = <<>> /\ details = <<>>
    /\ result = NotYet /\ frame = NoFrame
    /\ IdleAuthor

\* files = self.get_changed_files(); has_problems = False
GetChangedFiles ==
    /\ pc = "run_start"
    /\ files' = get_changed_files(diff)
    /\ has_problems' = FALSE
    /\ idx' = 0
    /\ pc' = "run_loop"
    /\ UNCHANGED <<diff, report, exit_code, extractVars, checkVars, authorVars>>

\* one turn of "for self.src_file in files" whose open() succeeds
CheckFile ==
    /\ pc = "run_loop"
    /\ idx < Len(files)
    /\ FileAt(files[idx + 1]).readable
    /\ LET path == files[idx + 1]
           read == get_leading_comments(FileAt(path).lines)
           out  == is_copyright_correct(path, read, details)
       IN  /\ src_file' = path
           /\ stream' = FileAt(path).lines
           /\ comments' = read
           /\ tested_strings' = read
           /\ result' = out.ret
           /\ details' = out.details
           /\ frame' = [copyright_strings |-> out.copyright_strings,
                        intel_copyright |-> out.intel_copyright,
                        year_or_range |-> out.year_or_range]
           /\ has_problems' = UpdateProblems(has_problems, out.ret)
    /\ idx' = idx + 1
    /\ UNCHANGED <<pc, diff, files, report, exit_code, authorVars>>

\* open() raises: the exception is caught nowhere and ends the process
OpenFails ==
    /\ pc = "run_loop"
    /\ idx < Len(files)
    /\ ~FileAt(files[idx + 1]).readable
    /\ src_file' = files[idx + 1]
    /\ exit_code' = 1
    /\ pc' = "run_aborted"
    /\ UNCHANGED <<diff, files, idx, has_problems, report, extractVars,
                   tested_strings, details, result, frame, authorVars>>

\* helper.update_json("check_copyright", passed, output, self.report_path);
\* what it returns is the caller's to observe, not to decide
UpdateJson(passed, summary, det, written) ==
    [check_name |-> "check_copyright", passed |-> passed,
     summary |-> summary, details |-> det, returned |-> written]

\* the "if has_problems:" branch up to the call of update_json
ReportFailed ==
    /\ pc = "run_loop"
    /\ idx = Len(files)
    /\ has_problems
    /\ details' = Append(details, Entry(MSG_CORRECT_FORMAT, <<>>))
    /\ \E written \in BOOLEAN :
           report' = Append(report, UpdateJson(FALSE, "Copyright check FAILED!",
                                               details', written))
    /\ pc' = "run_reported"
    /\ UNCHANGED <<diff, files, idx, has_problems, exit_code, extractVars,
                   tested_strings, src_file, result, frame, authorVars>>

\* the "else:" branch up to the call of update_json
ReportPassed ==
    /\ pc = "run_loop"
    /\ idx = Len(files)
    /\ ~has_problems
    /\ details' = details \o <<Entry(MSG_CHECKED, <<>>)>>
                    \o (IF files = <<>>
                        THEN <<Entry(MSG_NO_FILES, <<>>), Entry(MSG_EXTENSIONS, FILES_TO_CHECK)>>
                        ELSE <<>>)
                    \o [k \in 1..Len(files) |-> Entry(MSG_FILE, <<files[k]>>)]
    /\ \E written \in BOOLEAN :
           report' = Append(report, UpdateJson(TRUE, "Copyright check PASSED!",
                                               details', written))
    /\ pc' = "run_reported"
    /\ UNCHANGED <<diff, files, idx, has_problems, exit_code, extractVars,
                   tested_strings, src_file, result, frame, authorVars>>

\* exit(2), exit(1) or exit(0) after update_json has returned
Exit ==
    /\ pc = "run_reported"
    /\ exit_code' = ExitStatus(report[Len(report)].returned, has_problems)
    /\ pc' = "run_done"
    /\ UNCHANGED <<diff, files, idx, has_problems, report, extractVars,
                   checkVars, authorVars>>

NextRun ==
    \/ GetChangedFiles
    \/ CheckFile
    \/ OpenFails
    \/ ReportFailed
    \/ ReportPassed
    \/ Exit

SpecRun == InitRun /\ [][NextRun]_vars

\* what check_copyright would find in one file on its own
FileFails(path) ==
    ~is_copyright_correct(path, get_leading_comments(FileAt(path).lines), <<>>).ret

Failing(paths) == SelectSeq(paths, FileFails)

AllReadable == \A k \in 1..Len(files) : FileAt(files[k]).readable

\* C6: when every changed file can be read, update_json is called exactly
\* once, for "check_copyright", after the last file was checked and before
\* the exit, with passed true iff no file failed; the status is 2 iff the
\* call reported failure, else 1 iff a file failed, else 0.
C6_ReportOnceThenExit ==
    /\ pc \in {"run_start", "run_loop", "run_aborted"} => report = <<>>
    /\ pc = "run_reported" => exit_code = NoExit
    /\ (pc \in {"run_reported", "run_done"} /\ AllReadable) =>
           /\ Len(report) = 1
           /\ idx = Len(files)
           /\ report[1].check_name = "check_copyright"
           /\ report[1].passed = (Failing(files) = <<>>)
    /\ (pc = "run_done" /\ AllReadable) =>
           exit_code = IF ~report[1].returned THEN 2
                       ELSE IF Failing(files) # <<>> THEN 1 ELSE 0

C6_Witness ==
    /\ pc = "run_done"
    /\ files = <<P_a_h, P_b_cpp, P_c_c>>
    /\ Len(report) = 1 /\ ~report[1].passed /\ ~report[1].returned
    /\ exit_code = 2

\* C7: every changed file is checked, also after a failure; the verdict is
\* fail iff some file failed and is never reset; on fail the detail log is,
\* in file order, a path entry and a reason entry per failing file (then
\* the note on the correct format); on pass it is the list of the checked
\* files, or the "No files to check" note when there is none.
C7_Verdict ==
    /\ pc \in {"run_loop", "run_reported", "run_done"} =>
           has_problems = (Failing(SubSeq(files, 1, idx)) # <<>>)
    /\ (pc \in {"run_reported", "run_done"} /\ AllReadable) =>
           /\ idx = Len(files)
           /\ has_problems = (Failing(files) # <<>>)
           /\ has_problems =>
                  LET failing == Failing(files) IN
                  /\ Len(details) = 2 * Len(failing) + 1
                  /\ \A j \in 1..Len(failing) :
                         /\ details[2 * j - 1] = PathEntry(failing[j])
                         /\ details[2 * j].msg \in Reasons
                  /\ details[Len(details)] = Entry(MSG_CORRECT_FORMAT, <<>>)
           /\ ~has_problems =>
                  IF files = <<>>
                  THEN /\ Len(details) = 3
                       /\ details[1].msg = MSG_CHECKED
                       /\ details[2].msg = MSG_NO_FILES
                  ELSE /\ Len(details) = Len(files) + 1
                       /\ details[1].msg = MSG_CHECKED
                       /\ \A k \in 1..Len(files) :
                              details[k + 1] = Entry(MSG_FILE, <<files[k]>>)

\* a failing file, then a passing one
C7_Witness ==
    /\ pc = "run_done"
    /\ files = <<P_b_cpp, P_a_h>>
    /\ idx = 2
    /\ has_problems
    /\ Len(details) = 3

(***************************************************************************)
(* check_author.py: Checker and main.                                      *)
(***************************************************************************)
incorrect_author_names == <<"root", "mediasdk">>

incorrect_email_endswith == <<"@", "l", "o", "c", "a", "l", "h", "o", "s", "t", ".", "l", "o", "c", "a", "l", "d", "o", "m", "a", "i", "n">>

\* ErrorCode.CRITICAL.value of common.helper: a fixed status other than 0
ErrorCode_CRITICAL == "ErrorCode.CRITICAL.value"

Info(msg)  == [level |-> "INFO", msg |-> msg]
Error(msg) == [level |-> "ERROR", msg |-> msg]

LOG_NAME_OK   == "Author name is correct"
LOG_NAME_BAD  == "Author name can not be root, mediasdk."
LOG_EMAIL_OK  == "Author email is correct"
LOG_EMAIL_BAD == "Author email can not ends in @localhost.localdomain."

\* Checker.check_author: what it returns and what it logs
check_author(name) ==
    IF ~(\E k \in 1..Len(incorrect_author_names) : incorrect_author_names[k] = name)
    THEN [ret |-> TRUE, log |-> <<Info(LOG_NAME_OK)>>]
    ELSE [ret |-> FALSE, log |-> <<Error(LOG_NAME_BAD)>>]

\* check_email with "in" where the code has endswith
check_email_Contains(address) ==
    IF find(address, incorrect_email_endswith, 0) = SUBSTRING_IS_NOT_FOUND
    THEN [ret |-> TRUE, log |-> <<Info(LOG_EMAIL_OK)>>]
    ELSE [ret |-> FALSE, log |-> <<Error(LOG_EMAIL_BAD)>>]

\* Checker.check_email: what it returns and what it logs
check_email(address) ==
    IF ~endswith(address, incorrect_email_endswith)
    THEN [ret |-> TRUE, log |-> <<Info(LOG_EMAIL_OK)>>]
    ELSE [ret |-> FALSE, log |-> <<Error(LOG_EMAIL_BAD)>>]

AuthorNames ==
    {"root", "mediasdk", "Root", "root ", "rootx", "mediasdk2", "alice", "", "Media SDK"}

EmailLocals  == {<<>>, <<"a">>, <<"r", "o", "o", "t">>}
EmailDomains == {<<"@", "l", "o", "c", "a", "l", "h", "o", "s", "t", ".", "l", "o", "c", "a", "l", "d", "o", "m", "a", "i", "n">>,
                 <<"@", "l", "o", "c", "a", "l", "h", "o", "s", "t", ".", "l", "o", "c", "a", "l", "d", "o", "m", "a", "i", "n", ".", "o", "r", "g">>,
                 <<"@", "L", "O", "C", "A", "L", "H", "O", "S", "T", ".", "L", "O", "C", "A", "L", "D", "O", "M", "A", "I", "N">>,
                 <<"l", "o", "c", "a", "l", "h", "o", "s", "t", ".", "l", "o", "c", "a", "l", "d", "o", "m", "a", "i", "n">>,
                 <<"@", "i", "n", "t", "e", "l", ".", "c", "o", "m">>}

AuthorEmails == {l \o d : l \in EmailLocals, d \in EmailDomains}

InitAuthor ==
    /\ pc = "author_start"
    /\ author \in AuthorNames
    /\ email \in AuthorEmails
    /\ check_author_result = NotYet
    /\ check_email_result = NotYet
    /\ log = <<>>
    /\ result = NotYet /\ exit_code = NoExit
    /\ tested_strings = <<>> /\ src_file = <<>> /\ details = <<>> /\ frame = NoFrame
    /\ diff = <<>> /\ files = <<>> /\ idx = 0 /\ has_problems = FALSE /\ report = <<>>
    /\ IdleExtract

\* author, email = self._get_author_info()
GetAuthorInfo ==
    /\ pc = "author_start"
    /\ log' = log \o <<Info("Getting author information"), Info("Author name"),
                       Info("Author email")>>
    /\ pc' = "author_info"
    /\ UNCHANGED <<author, email, check_author_result, check_email_result, result,
                   exit_code, extractVars, tested_strings, src_file, details, frame, runVars>>

\* check_author_result = self.check_author(author)
CheckAuthor ==
    /\ pc = "author_info"
    /\ check_author_result' = check_author(author).ret
    /\ log' = log \o check_author(author).log
    /\ pc' = "author_name_checked"
    /\ UNCHANGED <<author, email, check_email_result, result,
                   exit_code, extractVars, tested_strings, src_file, details, frame, runVars>>

\* check_email_result = self.check_email(email)
CheckEmail ==
    /\ pc = "author_name_checked"
    /\ check_email_result' = check_email(email).ret
    /\ log' = log \o check_email(email).log
    /\ pc' = "author_email_checked"
    /\ UNCHANGED <<author, email, check_author_result, result,
                   exit_code, extractVars, tested_strings, src_file, details, frame, runVars>>

\* the rest of Checker.check: the summary record and the returned value
CheckReturns ==
    /\ pc = "author_email_checked"
    /\ log' = Append(log, IF check_author_result /\ check_email_result
                          THEN Info("All checks PASSED")
                          ELSE Error("Some checks FAILED"))
    /\ result' = (check_author_result /\ check_email_result)
    /\ pc' = "author_returned"
    /\ UNCHANGED <<author, email, check_author_result, check_email_result,
                   exit_code, extractVars, tested_strings, src_file, details, frame, runVars>>

\* main: exit(0) if checker.check() else exit(ErrorCode.CRITICAL.value)
MainExit ==
    /\ pc = "author_returned"
    /\ exit_code' = IF result THEN 0 ELSE ErrorCode_CRITICAL
    /\ pc' = "author_done"
    /\ UNCHANGED <<author, email, check_author_result, check_email_result, log, result,
                   extractVars, tested_strings, src_file, details, frame, runVars>>

NextAuthor ==
    \/ GetAuthorInfo
    \/ CheckAuthor
    \/ CheckEmail
    \/ CheckReturns
    \/ MainExit

SpecAuthor == InitAuthor /\ [][NextAuthor]_vars

DeniedName == author = "root" \/ author = "mediasdk"

ForbiddenEmail ==
    /\ Len(email) >= Len(incorrect_email_endswith)
    /\ SubSeq(email, Len(email) - Len(incorrect_email_endswith) + 1, Len(email))
           = incorrect_email_endswith

Logged(entry) == \E k \in 1..Len(log) : log[k] = entry

\* C8: Checker.check returns true iff the name is not exactly "root" or
\* "mediasdk" and the email does not end with "@localhost.localdomain";
\* both sub-checks are always evaluated and each violated rule is logged;
\* main exits 0 iff check returned true, else with the critical status.
C8_AuthorCheck ==
    /\ pc \in {"author_returned", "author_done"} =>
           /\ result = (~DeniedName /\ ~ForbiddenEmail)
           /\ check_author_result = ~DeniedName
           /\ check_email_result = ~ForbiddenEmail
           /\ Logged(Error(LOG_NAME_BAD)) = DeniedName
           /\ Logged(Error(LOG_EMAIL_BAD)) = ForbiddenEmail
           /\ Logged(Info(LOG_NAME_OK)) = ~DeniedName
           /\ Logged(Info(LOG_EMAIL_OK)) = ~ForbiddenEmail
    /\ pc = "author_done" =>
           /\ result => exit_code = 0
           /\ ~result => exit_code = ErrorCode_CRITICAL

\* a denied name together with a forbidden email: both rules are logged
C8_Witness ==
    /\ pc = "author_done"
    /\ author = "root"
    /\ email = <<"a", "@", "l", "o", "c", "a", "l", "h", "o", "s", "t", ".", "l", "o", "c", "a", "l", "d", "o", "m", "a", "i", "n">>
    /\ Logged(Error(LOG_NAME_BAD))
    /\ Logged(Error(LOG_EMAIL_BAD))
    /\ exit_code = ErrorCode_CRITICAL

====
